---- MODULE Spec2Model ----
(***************************************************************************)
(* Model of the scene interpreter of gal.js (class GalEngine): the program *)
(* counter, the label index, the typewriter, the choice buttons and the    *)
(* pending setTimeout callbacks.  One action per event the browser can     *)
(* deliver to the engine (API call, click, timer); each action runs the    *)
(* whole handler, including the synchronous chain of next()/_execute()     *)
(* calls it starts.                                                        *)
(*                                                                         *)
(* pc is 0-based as in the source; script[pc + 1] is the instruction the   *)
(* source calls this.script[this.pc].                                      *)
(*                                                                         *)
(* The delays of the timers (cmd.wait, cmd.ms, options.transition, the     *)
(* length of a text) are data of the script, so pending timers may fire in *)
(* any order; the timers are therefore kept as a bag.                      *)
(***************************************************************************)
EXTENDS Naturals, Integers, Sequences, FiniteSets, Bags, TLC

\* ------------------------------------------------------------------ bounds
MaxTimers == 3      \* pending setTimeout callbacks kept at once
MaxStarts == 2      \* calls of start() in one behaviour
MaxDepth  == 12     \* nested next() calls before the call stack overflows

\* --------------------------------------------------------------- scripts
NoChoices == <<>>

Cmd(t) == [type |-> t, len |-> 0, id |-> "", action |-> "", to |-> "",
           choices |-> NoChoices]

Say(n)       == [Cmd("say") EXCEPT !.len = n]
Bg           == Cmd("bg")
Bgm          == Cmd("bgm")
Wait         == Cmd("wait")
End          == Cmd("end")
Label(l)     == [Cmd("label") EXCEPT !.id = l]
Jump(l)      == [Cmd("jump") EXCEPT !.to = l]
Char(c, a)   == [Cmd("char") EXCEPT !.id = c, !.action = a]
Choice(chs)  == [Cmd("choice") EXCEPT !.choices = chs]
Unknown      == Cmd("shake")
NoType       == Cmd("")

\* one entry of cmd.choices: goto = "" is an entry without goto
Ch(g, c) == [goto |-> g, callback |-> c]

LabelIds == {"A", "B", "L"}

\* RESOURCES.characters: the ids the resource table defines
DefinedChars == {"liz"}

SayEnd == << Say(2), End >>

SayChoice == << Say(1),
                Choice(<< Ch("L", TRUE), Ch("", FALSE) >>),
                Say(1),
                Label("L"),
                Bg,
                End >>

Settle == << Bg, Say(2), Say(1), Wait, End >>

EmptyChoice == << Choice(NoChoices), Say(0), Bgm >>

Loop == << Label("A"),
           Char("liz", "show"),
           Char("liz", "hide"),
           Jump("B"),
           Choice(<< Ch("Z", FALSE), Ch("A", TRUE) >>),
           Unknown,
           NoType,
           Char("liz", "setState"),
           Jump("A") >>

ChoiceEnd == << Wait,
                Choice(<< Ch("L", TRUE) >>),
                End,
                Label("L"),
                Bgm >>

\* labels A at 0, B at 3 and A again at 7
Dup == << Label("A"),
          Say(1),
          Wait,
          Label("B"),
          Jump("A"),
          Bg,
          Bgm,
          Label("A"),
          Choice(<< Ch("B", FALSE) >>),
          End >>

\* a hide before the first show of the character
HideShow == << Char("liz", "hide"), Char("liz", "show"), End >>

\* a jump back to a label with nothing suspending in between
SyncLoop == << Label("A"), Unknown, Jump("A") >>

Scripts ==
  { SayEnd, SayChoice, Settle, EmptyChoice, Loop, ChoiceEnd, Dup, SyncLoop,
    HideShow }

\* the scripts start() is called with on an engine that ran script s: s
\* again (a replay) or another one
Replays(s) == { s, Settle }

\* ----------------------------------------------------------------- state
VARIABLES
  script,           \* this.script
  labels,           \* this.labels: label id -> index, -1 when absent
  pc,               \* this.pc
  running,          \* this.running
  choiceBox,        \* the buttons in this.choiceBox, each holding its ch
  timers,           \* bag of pending setTimeout callbacks
  waitingForClick,  \* this._waitingForClick
  endOnClick,       \* this._endOnClick is set
  visible,          \* this.state.chars[id].visible
  elPresent,        \* the sprite of id is a child of this.charLayer
  \* history of the last event, for stating the properties
  last,             \* name of the last event
  lastExec,         \* indices of the instructions the last event dispatched
  lastCb,           \* the last event invoked a choice callback
  lastGoto,         \* the goto of the button the last event selected
  lastRun,          \* the start() call that scheduled the timer the last event
                    \* fired, 0 when it was not a timer
  lastDone,         \* the reveal whose completion callback ran in the last
                    \* event (NoDone when none did)
  cur,              \* index of the instruction dispatched last, -1 if none
  crashed,          \* the last event ended in a call stack overflow
  stopped,          \* stop() was called since the last start()
  ended,            \* an end instruction executed since the last start()
  starts,           \* number of start() calls
  started           \* per start() call so far: the script it was given and
                    \* the effects it requested of the page before returning

vars == << script, labels, pc, running, choiceBox, timers, waitingForClick,
           endOnClick, visible, elPresent, last, lastExec, lastCb, lastGoto,
           lastRun, lastDone, cur, crashed, stopped, ended, starts, started >>

\* timers: one record shape for the three kinds of callback
\*   "next"     () => this.next()
\*   "tick"     the typewriter's tick closure: text length, i, and what the
\*              completion callback captured (hasChoiceAfter / hasEndAfter);
\*              replaced marks a reveal started before the latest _typeText
\*   "teardown" _hideChar's removal of el; attached: el is still in the DOM
\* run is the number of the start() call the callback was scheduled under,
\* src (of a tick) the index of the say instruction that started the reveal.
Timer(k, st) == [k |-> k, len |-> 0, i |-> 0, after |-> "",
                 replaced |-> FALSE, id |-> "", attached |-> FALSE,
                 src |-> -1, run |-> st.run]

NextTimer(st) == Timer("next", st)
TickTimer(st, n, i, a) ==
  [Timer("tick", st) EXCEPT !.len = n, !.i = i, !.after = a,
                            !.src = st.pc - 1]
TeardownTimer(st, c) ==
  [Timer("teardown", st) EXCEPT !.id = c, !.attached = TRUE]

NoDone == [by |-> "", src |-> -1, after |-> "", run |-> 0]
Done(t, by) == [by |-> by, src |-> t.src, after |-> t.after, run |-> t.run]

setTimeout(b, t) == b (+) SetToBag({t})
clearFired(b, t) == b (-) SetToBag({t})

\* the engine state a handler works on, with the history of the handler
Cur == [script |-> script, labels |-> labels, pc |-> pc, running |-> running,
        choiceBox |-> choiceBox, timers |-> timers,
        waitingForClick |-> waitingForClick, endOnClick |-> endOnClick,
        visible |-> visible, elPresent |-> elPresent,
        exec |-> <<>>, cb |-> FALSE, goto |-> "", fired |-> 0,
        calls |-> <<>>,
        done |-> NoDone, depth |-> 0,
        cur |-> cur, run |-> starts,
        crashed |-> FALSE, stopped |-> stopped, ended |-> ended]

\* the handler requests effect op of the page (for character c)
Request(st, op, c) ==
  [st EXCEPT !.calls = Append(st.calls, [op |-> op, id |-> c])]

\* ------------------------------------------------------------ label index
\* the index scan keeping the first label of an id instead of the last
FirstLabel(s, l) ==
  LET at == { i \in 1..Len(s) : s[i].type = "label" /\ s[i].id = l }
  IN IF at = {} THEN -1
     ELSE (CHOOSE i \in at : \A j \in at : i <= j) - 1

LastLabel(s, l) ==
  LET at == { i \in 1..Len(s) : s[i].type = "label" /\ s[i].id = l }
  IN IF at = {} THEN -1
     ELSE (CHOOSE i \in at : \A j \in at : j <= i) - 1

_indexLabels(s) == [l \in LabelIds |-> LastLabel(s, l)]

\* jumpToLabel restarting the script when the label is unknown
jumpOrRewind(st, l) ==
  IF l \in DOMAIN st.labels /\ st.labels[l] >= 0
  THEN [st EXCEPT !.pc = st.labels[l] + 1]
  ELSE [st EXCEPT !.pc = 0]

jumpToLabel(st, l) ==
  IF l \in DOMAIN st.labels /\ st.labels[l] >= 0
  THEN [st EXCEPT !.pc = st.labels[l] + 1]
  ELSE st

\* --------------------------------------------------------------- handlers
RECURSIVE next(_), _execute(_, _), _cmdSay(_, _), _typeText(_, _, _),
          sayDone(_, _), _cmdChar(_, _)

afterOf(st) ==
  IF st.pc + 1 \in 1..Len(st.script)
  THEN IF st.script[st.pc + 1].type = "choice" THEN "choice"
       ELSE IF st.script[st.pc + 1].type = "end" THEN "end"
       ELSE "other"
  ELSE "other"

\* the completion callback _cmdSay hands to _typeText
sayDone(st, a) ==
  IF a = "choice" THEN next(st)
  ELSE IF a = "end"
       THEN [st EXCEPT !.waitingForClick = TRUE, !.endOnClick = TRUE]
       ELSE [st EXCEPT !.waitingForClick = TRUE]

_typeText(st, n, a) ==
  LET st1 == [Request(st, "text", "") EXCEPT
                !.choiceBox = <<>>,
                !.timers = BagOfAll(LAMBDA t :
                              IF t.k = "tick" THEN [t EXCEPT !.replaced = TRUE]
                              ELSE t, st.timers)]
      t0  == TickTimer(st, n, 0, a)
  IN IF 0 >= n
     THEN sayDone([st1 EXCEPT !.done = Done(t0, "current")], a)
     ELSE [st1 EXCEPT !.timers = setTimeout(st1.timers, [t0 EXCEPT !.i = 1])]

_cmdSay(st, cmd) == _typeText(st, cmd.len, afterOf(st))

settle(st) == [st EXCEPT !.timers = setTimeout(st.timers, NextTimer(st))]

_cmdBg(st, cmd) == settle(Request(st, "bg", ""))

_cmdBgm(st, cmd) == settle(Request(st, "bgm", ""))

_showChar(st, c) ==
  IF c \notin DefinedChars THEN st
  ELSE [Request(st, "show", c) EXCEPT !.elPresent[c] = TRUE,
                                     !.visible[c] = TRUE]

_hideChar(st, c) ==
  IF c \notin DefinedChars \/ ~st.elPresent[c] THEN st
  ELSE [Request(st, "hide", c) EXCEPT
          !.visible[c] = FALSE,
          !.timers = setTimeout(st.timers, TeardownTimer(st, c))]

_setCharState(st, c) ==
  IF c \in DefinedChars /\ st.elPresent[c] THEN Request(st, "setState", c)
  ELSE st

_cmdChar(st, cmd) ==
  IF cmd.id = "" THEN next(st)
  ELSE IF cmd.action \in {"", "show"} THEN settle(_showChar(st, cmd.id))
  ELSE IF cmd.action = "hide" THEN settle(_hideChar(st, cmd.id))
  ELSE IF cmd.action = "setState" THEN settle(_setCharState(st, cmd.id))
  ELSE next(st)

_cmdChoice(st, cmd) ==
  [Request(st, "choices", "") EXCEPT !.choiceBox = cmd.choices]

\* the end instruction without the reset of this.running
cmdEndKeepsRunning(st) == [Request(st, "end", "") EXCEPT !.ended = TRUE]

\* case 'end' of _execute
cmdEnd(st) ==
  [Request(st, "end", "") EXCEPT !.running = FALSE, !.ended = TRUE]

_execute(st, cmd) ==
  IF cmd.type = "" THEN next(st)
  ELSE IF cmd.type = "say" THEN _cmdSay(st, cmd)
  ELSE IF cmd.type = "bg" THEN _cmdBg(st, cmd)
  ELSE IF cmd.type = "char" THEN _cmdChar(st, cmd)
  ELSE IF cmd.type = "choice" THEN _cmdChoice(st, cmd)
  ELSE IF cmd.type = "wait" THEN settle(st)
  ELSE IF cmd.type = "label" THEN next(st)
  ELSE IF cmd.type = "jump"
       THEN IF cmd.to # "" THEN next(jumpToLabel(st, cmd.to)) ELSE next(st)
  ELSE IF cmd.type = "bgm" THEN _cmdBgm(st, cmd)
  ELSE IF cmd.type = "end" THEN cmdEnd(st)
  ELSE next(st)

\* next() leaving this.running set at the end of the script
nextKeepsRunning(st) ==
  IF st.depth >= MaxDepth THEN [st EXCEPT !.crashed = TRUE]
  ELSE IF ~st.running THEN st
  ELSE IF st.pc >= Len(st.script) THEN st
  ELSE _execute([st EXCEPT !.pc = st.pc + 1,
                           !.exec = Append(st.exec, st.pc),
                           !.cur = st.pc,
                           !.depth = st.depth + 1],
                st.script[st.pc + 1])

\* next() without the check of this.running
nextUnguarded(st) ==
  IF st.depth >= MaxDepth THEN [st EXCEPT !.crashed = TRUE]
  ELSE IF st.pc >= Len(st.script) THEN [st EXCEPT !.running = FALSE]
  ELSE _execute([st EXCEPT !.pc = st.pc + 1,
                           !.exec = Append(st.exec, st.pc),
                           !.cur = st.pc,
                           !.depth = st.depth + 1],
                st.script[st.pc + 1])

next(st) ==
  IF st.depth >= MaxDepth THEN [st EXCEPT !.crashed = TRUE]
  ELSE IF ~st.running THEN st
  ELSE IF st.pc >= Len(st.script) THEN [st EXCEPT !.running = FALSE]
  ELSE _execute([st EXCEPT !.pc = st.pc + 1,
                           !.exec = Append(st.exec, st.pc),
                           !.cur = st.pc,
                           !.depth = st.depth + 1],
                st.script[st.pc + 1])

start(st, s) ==
  next([st EXCEPT !.script = s, !.labels = _indexLabels(s), !.pc = 0,
                  !.running = TRUE, !.stopped = FALSE, !.ended = FALSE,
                  !.cur = -1, !.run = st.run + 1])

\* stop() rewinding the script as well
stopAndRewind(st) == [st EXCEPT !.running = FALSE, !.stopped = TRUE, !.pc = 0]

stop(st) == [st EXCEPT !.running = FALSE, !.stopped = TRUE]

\* the container's click listener
_onClick(st) ==
  IF Len(st.choiceBox) > 0 THEN st ELSE next([st EXCEPT !.depth = 0])

\* the click listener of button i
btnClick(st, i) ==
  LET ch  == st.choiceBox[i]
      st1 == [st EXCEPT !.choiceBox = <<>>, !.cb = ch.callback,
                        !.goto = ch.goto]
  IN IF ch.goto # "" THEN next(jumpToLabel(st1, ch.goto)) ELSE next(st1)

\* one pass of the typewriter's tick closure, run from its timer
tick(st, t) ==
  IF t.i >= t.len
  THEN sayDone([st EXCEPT !.done = Done(t, IF t.replaced THEN "replaced"
                                           ELSE "current")], t.after)
  ELSE [Request(st, "text", "") EXCEPT
          !.timers = setTimeout(st.timers, [t EXCEPT !.i = t.i + 1])]

\* the state a timer callback starts from: t has left the pending timers
Fired(t) == [Cur EXCEPT !.timers = clearFired(timers, t), !.fired = t.run]

\* the callback _hideChar schedules
teardown(st, t) ==
  IF t.attached
  THEN [st EXCEPT !.elPresent[t.id] = FALSE,
                  !.timers = BagOfAll(LAMBDA u :
                                IF u.k = "teardown" /\ u.id = t.id
                                THEN [u EXCEPT !.attached = FALSE]
                                ELSE u, st.timers)]
  ELSE st

\* ---------------------------------------------------------------- actions
Commit(st, ev) ==
  /\ BagCardinality(st.timers) <= MaxTimers
  /\ script' = st.script
  /\ labels' = st.labels
  /\ pc' = st.pc
  /\ running' = st.running
  /\ choiceBox' = st.choiceBox
  /\ timers' = st.timers
  /\ waitingForClick' = st.waitingForClick
  /\ endOnClick' = st.endOnClick
  /\ visible' = st.visible
  /\ elPresent' = st.elPresent
  /\ last' = ev
  /\ lastExec' = st.exec
  /\ lastCb' = st.cb
  /\ lastGoto' = st.goto
  /\ lastRun' = st.fired
  /\ lastDone' = st.done
  /\ cur' = st.cur
  /\ crashed' = st.crashed
  /\ stopped' = st.stopped
  /\ ended' = st.ended
  /\ started' = IF ev = "start"
                THEN Append(started, [script |-> st.script, calls |-> st.calls])
                ELSE started

Init ==
  /\ script = <<>>
  /\ labels = [l \in LabelIds |-> -1]
  /\ pc = 0
  /\ running = FALSE
  /\ choiceBox = <<>>
  /\ timers = EmptyBag
  /\ waitingForClick = FALSE
  /\ endOnClick = FALSE
  /\ visible = [c \in DefinedChars |-> FALSE]
  /\ elPresent = [c \in DefinedChars |-> FALSE]
  /\ last = "new"
  /\ lastExec = <<>>
  /\ lastCb = FALSE
  /\ lastGoto = ""
  /\ lastRun = 0
  /\ lastDone = NoDone
  /\ cur = -1
  /\ crashed = FALSE
  /\ stopped = FALSE
  /\ ended = FALSE
  /\ starts = 0
  /\ started = <<>>

\* engine.start(script) / engine.playScript(script) on the new engine
Start ==
  /\ starts = 0
  /\ \E s \in Scripts : Commit(start(Cur, s), "start")
  /\ starts' = starts + 1

\* engine.start(script) / engine.playScript(script) called again
Restart ==
  /\ starts \in 1..(MaxStarts - 1)
  /\ \E s \in Replays(script) : Commit(start(Cur, s), "start")
  /\ starts' = starts + 1

\* engine.stop()
Stop ==
  /\ Commit(stop(Cur), "stop")
  /\ UNCHANGED starts

\* a click inside the container that is not on a choice button
Click ==
  /\ Commit(_onClick(Cur), "click")
  /\ UNCHANGED starts

\* engine.next() called by the page
CallNext ==
  /\ Commit(next(Cur), "next")
  /\ UNCHANGED starts

\* a click on choice button i: the button's listener, then the container's
\* listener as the event bubbles
Select ==
  /\ \E i \in 1..Len(choiceBox) : Commit(_onClick(btnClick(Cur, i)), "select")
  /\ UNCHANGED starts

\* a settle/wait timer fires
FireNext ==
  /\ \E t \in BagToSet(timers) :
       /\ t.k = "next"
       /\ Commit(next(Fired(t)), "timer")
  /\ UNCHANGED starts

\* a typewriter timer fires
FireTick ==
  /\ \E t \in BagToSet(timers) :
       /\ t.k = "tick"
       /\ Commit(tick(Fired(t), t), "tick")
  /\ UNCHANGED starts

\* a sprite teardown timer fires
FireTeardown ==
  /\ \E t \in BagToSet(timers) :
       /\ t.k = "teardown"
       /\ Commit(teardown(Fired(t), t), "teardown")
  /\ UNCHANGED starts

Next ==
  \/ Start
  \/ Restart
  \/ Stop
  \/ Click
  \/ CallNext
  \/ Select
  \/ FireNext
  \/ FireTick
  \/ FireTeardown

Spec == Init /\ [][Next]_vars

\* the behaviours with a single call of start()
NextOneRun ==
  \/ Start
  \/ Stop
  \/ Click
  \/ CallNext
  \/ Select
  \/ FireNext
  \/ FireTick
  \/ FireTeardown

OneRun == Init /\ [][NextOneRun]_vars

TypeOK ==
  /\ pc \in 0..Len(script)
  /\ running \in BOOLEAN
  /\ BagCardinality(timers) <= MaxTimers

\* ------------------------------------------------------------- properties
Kinds == BagOfAll(LAMBDA t : t.k, timers)

RevealInProgress == CopiesIn("tick", Kinds) > 0

SettlePending == CopiesIn("next", Kinds) > 0

\* the event of the step is an advance signal
Advance == last' \in {"click", "next"}

\* the event of the step is a timer callback
TimerFired == last' \in {"timer", "tick", "teardown"}

Dispatched(i) == script[i + 1]

\* the states of the interpreter the specification names
AwaitingChoice == running /\ cur >= 0 /\ Dispatched(cur).type = "choice"

AwaitingAdvance ==
  /\ running
  /\ cur >= 0 /\ Dispatched(cur).type = "say"
  /\ waitingForClick
  /\ ~RevealInProgress /\ ~SettlePending

\* C1: an advance signal that arrives while a reveal is in progress or a
\* settle/wait timer is pending executes no instruction and leaves pc
\* unchanged.
C1_AdvanceIgnoredWhileBusy ==
  [][(Advance /\ (RevealInProgress \/ SettlePending))
       => (pc' = pc /\ lastExec' = <<>>)]_vars

\* C2: at most one pending continuation that will call next() exists in
\* every reachable state.
WillCallNext ==
  BagOfAll(LAMBDA t : t.k = "next" \/ (t.k = "tick" /\ t.after = "choice"),
           timers)

C2_AtMostOneInFlight == CopiesIn(TRUE, WillCallNext) <= 1

\* C3: the completion callback of a reveal that was replaced by a later
\* reveal never fires.
C3_ReplacedRevealNeverCompletes == lastDone.by # "replaced"

\* an instruction _execute passes over by calling next() at once
Synchronous(cmd) ==
  \/ cmd.type \notin {"say", "bg", "char", "choice", "wait", "bgm", "end"}
  \/ cmd.type = "char" /\ cmd.id = ""
  \/ cmd.type = "char" /\ cmd.action \notin {"", "show", "hide", "setState"}

\* the instructions among those of a handler that suspend or set a timer
Effects(ex) == SelectSeq(ex, LAMBDA i : ~Synchronous(Dispatched(i)))

\* the pc a selection of button i resolves to
Target(i) ==
  IF choiceBox[i].goto \in DOMAIN labels /\ labels[choiceBox[i].goto] >= 0
  THEN labels[choiceBox[i].goto] + 1
  ELSE pc

\* C4: a selection in Awaiting-Choice clears the choice list, resolves pc
\* from the goto label (pc stays when the label is unknown or absent), and
\* dispatches from that pc one instruction effect and no second one.
C4_SelectDispatchesOnce ==
  [][(last' = "select" /\ AwaitingChoice)
       => /\ \E i \in 1..Len(choiceBox) :
               lastExec' # <<>> => lastExec'[1] = Target(i)
          /\ Len(Effects(lastExec')) <= 1]_vars

\* C5: in Awaiting-Choice no advance signal and no timer or typewriter
\* completion executes an instruction or changes pc; the interpreter stays
\* in Awaiting-Choice until a choice is selected.
C5_ChoiceBlocksAdvance ==
  [][(AwaitingChoice /\ (Advance \/ TimerFired))
       => (pc' = pc /\ lastExec' = <<>> /\ AwaitingChoice')]_vars

\* C6: a selection that arrives when the interpreter is not in
\* Awaiting-Choice is ignored: pc is unchanged, no callback is invoked and
\* no instruction executes.
C6_SelectIgnoredOutsideChoice ==
  [][(last' = "select" /\ ~AwaitingChoice)
       => (pc' = pc /\ ~lastCb' /\ lastExec' = <<>>)]_vars

\* the fields of the engine
engine == << script, labels, pc, running, choiceBox, timers, waitingForClick,
             endOnClick, visible, elPresent >>

\* the step is the timer completion of a reveal started in this run
RevealCompletes ==
  /\ last' = "tick"
  /\ lastDone'.by # ""
  /\ lastDone'.run = starts
  /\ ~stopped

\* the same, with the say still the instruction dispatched last: no signal
\* moved the interpreter on during the reveal
CurrentRevealCompletes == RevealCompletes /\ running /\ cur = lastDone'.src

\* C7: when the reveal of a say that is immediately followed by a choice
\* completes, the completion dispatches that choice, and only it, and the
\* interpreter is in Awaiting-Choice for it.
C7_RevealEntersChoice ==
  [][(RevealCompletes /\ lastDone'.after = "choice")
       => /\ lastExec' = << lastDone'.src + 1 >>
          /\ cur' = lastDone'.src + 1
          /\ AwaitingChoice']_vars

\* What the code does guarantee for a say followed by a choice: the
\* completion dispatches the choice when the say is still the current
\* instruction.
RevealEntersChoiceWhenCurrent ==
  [][(CurrentRevealCompletes /\ lastDone'.after = "choice")
       => /\ lastExec' = << cur + 1 >>
          /\ cur' = cur + 1
          /\ Dispatched(cur').type = "choice"
          /\ AwaitingChoice']_vars

\* C8: for the script [say, end]: when the reveal completes the interpreter
\* is in Awaiting-Advance and end has not executed; an advance signal in
\* that state executes end and the run is Ended with running false; an
\* advance signal after that changes nothing.
C8_SayEnd ==
  /\ [][(script = SayEnd /\ RevealCompletes)
          => (AwaitingAdvance' /\ pc' = 1 /\ ~ended' /\ lastExec' = <<>>)]_vars
  /\ [][(script = SayEnd /\ AwaitingAdvance /\ pc = 1 /\ Advance)
          => (lastExec' = << 1 >> /\ ended' /\ ~running')]_vars
  /\ [][(script = SayEnd /\ ended /\ Advance)
          => (lastExec' = <<>> /\ UNCHANGED engine)]_vars

\* What the code does guarantee for [say, end]: the same, when the say is
\* still the current instruction and its reveal the only pending timer at
\* completion.
SayEndWhenCurrent ==
  /\ [][(script = SayEnd /\ CurrentRevealCompletes
            /\ BagCardinality(timers) = 1)
          => (AwaitingAdvance' /\ pc' = 1 /\ ~ended' /\ lastExec' = <<>>)]_vars
  /\ [][(script = SayEnd /\ AwaitingAdvance /\ pc = 1 /\ Advance)
          => (lastExec' = << 1 >> /\ ended' /\ ~running')]_vars
  /\ [][(script = SayEnd /\ ended /\ Advance)
          => (lastExec' = <<>> /\ UNCHANGED engine)]_vars

\* C9: after stop() a timer callback that fires (settle or wait timer,
\* typewriter tick or completion, sprite teardown) executes no instruction
\* and leaves pc unchanged.
C9_TimersNoOpAfterStop ==
  [][(stopped /\ TimerFired) => (pc' = pc /\ lastExec' = <<>>)]_vars

C9_Witness ==
  /\ stopped
  /\ last = "timer"
  /\ pc < Len(script)
  /\ lastExec = <<>>

\* C10: once an end instruction has executed, the run is not running, and
\* until start() is called again no advance signal, timer, typewriter
\* completion or choice selection executes an instruction.
C10_EndIsTerminal ==
  /\ [](ended => ~running)
  /\ [][(ended /\ last' # "start")
          => (ended' /\ ~running' /\ lastExec' = <<>>)]_vars

C10_Witness ==
  /\ ended
  /\ last = "select"
  /\ lastCb
  /\ pc < Len(script)
  /\ lastExec = <<>>

\* the offsets of the label instructions of script s that carry id l
LabelsAt(s, l) ==
  { i \in 0..(Len(s) - 1) : s[i + 1].type = "label" /\ s[i + 1].id = l }

\* n is the offset immediately after the last label l of s
AfterLastLabel(s, l, n) ==
  /\ n - 1 \in LabelsAt(s, l)
  /\ \A j \in LabelsAt(s, l) : j <= n - 1

\* the k-th instruction a handler dispatched is a jump with a target
JumpAt(s, ex, k) == s[ex[k] + 1].type = "jump" /\ s[ex[k] + 1].to # ""

\* where execution went after the k-th dispatched instruction: the offset
\* of the instruction dispatched next, or the final pc p
Went(ex, k, p) == IF k < Len(ex) THEN ex[k + 1] ELSE p

\* C11: the label index resolves every label id to its last label
\* instruction, and a jump or a choice goto to an indexed label continues at
\* the offset immediately after that instruction (A at 0 and 7: offset 8).
C11_LastLabelWins ==
  /\ [](\A l \in LabelIds :
          IF LabelsAt(script, l) = {} THEN labels[l] = -1
          ELSE AfterLastLabel(script, l, labels[l] + 1))
  /\ [][\A k \in 1..Len(lastExec') :
          (JumpAt(script', lastExec', k)
             /\ LabelsAt(script', script'[lastExec'[k] + 1].to) # {})
            => AfterLastLabel(script', script'[lastExec'[k] + 1].to,
                              Went(lastExec', k, pc'))]_vars
  /\ [][(last' = "select" /\ LabelsAt(script', lastGoto') # {})
          => AfterLastLabel(script', lastGoto', Went(lastExec', 0, pc'))]_vars

C11_Witness ==
  /\ script = Dup
  /\ labels["A"] = 7
  /\ \E k \in 1..(Len(lastExec) - 1) : lastExec[k] = 4 /\ lastExec[k + 1] = 8
  /\ pc = 9

NoJump(s, ex) == \A k \in 1..Len(ex) : ~JumpAt(s, ex, k)

\* C13: within a run a step without a jump instruction and without a choice
\* goto moves pc forward by one per instruction it fetches, and by nothing
\* else; pc never decreases in such a step.
C13_PcMovesForward ==
  [][(last' # "start" /\ NoJump(script', lastExec')
        /\ ~(last' = "select" /\ lastGoto' # ""))
       => pc' = pc + Len(lastExec')]_vars

C13_Witness ==
  /\ script = SayChoice
  /\ last = "select"
  /\ lastGoto = ""
  /\ lastExec = << 2, 3, 4 >>
  /\ pc = 5

\* C14: the interpreter is never at the same time flagged as waiting for an
\* advance signal and presenting an unresolved choice.
C14_WaitingOrChoosing == ~(running /\ waitingForClick /\ choiceBox # <<>>)

\* the event of the step calls next() directly
CallsNext ==
  \/ last' \in {"next", "timer"}
  \/ last' = "click" /\ choiceBox = <<>>

StaleTimerFired == TimerFired /\ lastRun' \in 1..(starts - 1)

\* C18: a timer or reveal left pending by an earlier run does not advance
\* the run a later start() began: when it fires, no instruction is
\* dispatched and pc does not move.
C18_StaleTimerIsInert ==
  [][StaleTimerFired => (lastExec' = <<>> /\ pc' = pc)]_vars

\* C19: every chain of synchronously auto-advancing instructions ends after
\* finitely many dispatches, also when a jump targets an earlier label: no
\* handler keeps calling next() until the call stack overflows.
C19_SyncChainsEnd == ~crashed

\* C20: a character whose runtime state says visible has its sprite in the
\* presentation layer: the teardown a hide scheduled never removes the
\* sprite of a character a later show made visible again.
C20_VisibleHasSprite == \A c \in DefinedChars : visible[c] => elPresent[c]

\* C16: a replay of a script requests the same effects of the page as the
\* first run of that script did, whatever the earlier run left behind; in
\* particular the effects start() requests before any signal arrives are
\* those the first start() of the same script requested.
C16_ReplayRequestsSame ==
  \A i, j \in DOMAIN started :
    started[i].script = started[j].script
      => started[i].calls = started[j].calls
====
